---- MODULE Spec2Model ----
(***************************************************************************)
(* A model of the ROMY robot client: the HTTP query primitive              *)
(* (src/romy/utils.py) and the robot session RomyRobot (src/romy/romy.py): *)
(* port probing, unlock, identity fetch, state refresh and the commands.   *)
(*                                                                         *)
(* Specifications:                                                         *)
(*   SpecInit    create_romy against any network                           *)
(*   Spec        create_romy against a robot, then any calls               *)
(*   SpecDevice  create_romy, then refreshes, against fixed answers        *)
(*   SpecTasks   create_romy, then pairs of concurrent async_set_fan_speed *)
(*   SpecQuery   the query primitive on its own, await by await            *)
(*                                                                         *)
(* Python values are represented as follows.                               *)
(*   None | T      <<>> for None, <<v>> for a value v                      *)
(*   dict          a function whose domain is the set of keys              *)
(*   str body      a record [text, valid, obj]: the decoded text, whether  *)
(*                 json.loads accepts it, and the object it then yields    *)
(*   float (2 dp)  the number of hundredths, an integer                    *)
(***************************************************************************)
EXTENDS Integers, Sequences, FiniteSets, TLC

VARIABLES
    romy,     \* the RomyRobot object: its attributes (self)
    pc,       \* where the call in progress stands; "idle" between calls
    i,        \* _init's port loop: index into romy._ports
    op,       \* the call in progress, or the last one completed
    sent,     \* the queries the call named by op has issued so far, in order
    probed,   \* the ports probed by _init, in order, with the HTTP status seen
    last,     \* the most recent query and what the primitive made of it
    retval,   \* what the last completed call returned ("" while one is running)
    net,      \* what answers the queries: "any" network, a "robot", a "device"
    query,    \* the call of the query primitive in progress (utils.py)
    device,   \* the answers of a device whose responses do not change
    before,   \* the session as it was when the refresh in progress was called
    tasks,    \* the concurrent calls in progress on the session
    applied   \* the fan speed the device applied last

\* What the calls made one after the other on a session leave alone.
others == <<query, device, before, tasks, applied>>

vars == <<romy, pc, i, op, sent, probed, last, retval, net, others>>

-----------------------------------------------------------------------------
(* Python values *)

None == <<>>

Some(v) == <<v>>

EmptyDict == [k \in {} |-> None]

\* d[k] = v
DictSet(d, k, v) == [x \in DOMAIN d \cup {k} |-> IF x = k THEN v ELSE d[x]]

\* A response body that is not JSON.
Text(s) == [text |-> s, valid |-> FALSE, obj |-> EmptyDict]

\* A response body that is the JSON encoding of the object o.
Json(o) == [text |-> "json", valid |-> TRUE, obj |-> o]

\* round(num / den, 2), in hundredths: Python rounds the exact quotient
\* (den is a power of two) half to even.
round2(num, den) ==
    LET q == (num * 100) \div den
        r == (num * 100) % den
    IN  IF 2 * r > den \/ (2 * r = den /\ q % 2 = 1) THEN q + 1 ELSE q

-----------------------------------------------------------------------------
(* What the network can do to one GET *)

Response(status, body) == [kind |-> "response", status |-> status, body |-> body]

Timeout == [kind |-> "timeout", status |-> 0, body |-> Text("")]

ClientError == [kind |-> "error", status |-> 0, body |-> Text("Cannot connect to host")]

\* Answers to the probe: reachable and unlocked (400), reachable and locked
\* (403), some other server on that port (200), nothing at all.
ProbeEvents ==
    { Response(400, Text("")), Response(403, Text("")), Response(200, Text("")),
      Timeout, ClientError }

\* A query that does not succeed: refused by a locked interface, or timed out.
FailEvents == { Response(403, Text("forbidden")), Timeout }

\* A 200 whose body is not JSON at all.
NotJson == Response(200, Text("<html>"))

\* A 200 with no particular payload (the set/ commands).
Ok == Response(200, Json(EmptyDict))

\* Whether a probe has found the robot.
Found == \E k \in 1..Len(probed) : probed[k].http_status \in {400, 403}

\* The answers the network can give to a query, among events. Any of them,
\* except while create_romy runs against a "robot": one that listens on one
\* port or is switched off, so that a probe gets 400, 403 or no answer and a
\* later query gets a 200 if the robot was found and no answer if not. A
\* "device" is such a robot that has one answer to each sub-fetch of a
\* refresh, always the same.
Answers(events) ==
    IF net = "device" /\ pc \in DOMAIN device THEN {device[pc]}
    ELSE IF net = "any" \/ (net = "robot" /\ op # "create_romy") THEN events
    ELSE IF pc = "probe"
    THEN {ev \in events : ev.status \in {400, 403} \/ ev.kind = "timeout"}
    ELSE {ev \in events : IF Found THEN ev.status = 200 ELSE ev.kind = "timeout"}

-----------------------------------------------------------------------------
(* utils.py: the HTTP query primitive *)

\* The test of the status as "no error status".
_async_query_ok_below_400(ev, error_log_level) ==
    IF ev.kind = "response"
    THEN [ret |-> ev.status < 400, response |-> ev.body,
          http_status |-> ev.status, logged |-> ""]
    ELSE IF ev.kind = "timeout"
    THEN [ret |-> FALSE, response |-> Text("timeout"),
          http_status |-> 0, logged |-> error_log_level]
    ELSE [ret |-> FALSE, response |-> ev.body,
          http_status |-> 0, logged |-> error_log_level]

\* One GET. The result: (ret, response, http_status), and what the call
\* logged at the caller's error_log_level ("" when it logged no failure).
_async_query(ev, error_log_level) ==
    IF ev.kind = "response"
    THEN [ret |-> ev.status = 200, response |-> ev.body,
          http_status |-> ev.status, logged |-> ""]
    ELSE IF ev.kind = "timeout"
    THEN [ret |-> FALSE, response |-> Text("timeout"),
          http_status |-> 0, logged |-> error_log_level]
    ELSE [ret |-> FALSE, response |-> ev.body,
          http_status |-> 0, logged |-> error_log_level]

async_query(ev, error_log_level) ==
    LET q == _async_query(ev, error_log_level)
    IN  [ret |-> q.ret, response |-> q.response, http_status |-> q.http_status,
         logged |-> q.logged]

async_query_with_http_status(ev) == _async_query(ev, "ERROR")

-----------------------------------------------------------------------------
(* romy.py: RomyRobot *)

supported_binary_sensors == <<"dustbin", "dock", "water_tank", "water_tank_empty">>

supported_adc_sensors == <<"dustbin_sensor">>

\* RomyRobot.__init__
RomyRobot(password) ==
    [ _password |-> password,
      _ports |-> <<8080, 10009, 80>>,
      _port |-> 8080,
      _local_http_interface_is_locked |-> FALSE,
      _initialized |-> FALSE,
      _name |-> "",
      _user_name |-> "",
      _unique_id |-> "",
      _model |-> "",
      _firmware |-> "",
      _battery_level |-> None,
      _fan_speed |-> 0,
      _status |-> None,
      _sensors |-> EmptyDict,
      _binary_sensors |-> EmptyDict,
      romy_async_query_error_log_level |-> "ERROR" ]

\* romy.py 133-136
is_initialized(r) == r._initialized

\* romy.py 138-141
is_unlocked(r) == ~r._local_http_interface_is_locked

\* The passwords a caller may configure: 7, 8 and 9 characters.
Passwords == {"1234567", "12345678", "123456789"}

\* The passwords tried against a robot: a wrong length, the right one.
RobotPasswords == {"1234567", "12345678"}

NoQuery == [port |-> 0, command |-> "", kind |-> "", ret |-> FALSE,
            http_status |-> 0, logged |-> ""]

\* The record kept of a query sent to port with the primitive's result q.
Seen(port, command, ev, q) ==
    [port |-> port, command |-> command, kind |-> ev.kind, ret |-> q.ret,
     http_status |-> q.http_status, logged |-> q.logged]

Entry(port, command, q) == [port |-> port, command |-> command, ret |-> q.ret]

\* romy_async_query: a query to the session's port, at the session's log
\* level; the level drops to DEBUG on a failure and is ERROR again after
\* a success.
romy_async_query_level(ret) == IF ret THEN "ERROR" ELSE "DEBUG"

romy_async_query(r, ev) ==
    LET q == async_query(ev, r.romy_async_query_error_log_level)
    IN  [q |-> q,
         romy |-> [r EXCEPT !.romy_async_query_error_log_level =
                                romy_async_query_level(q.ret)]]

\* The bookkeeping of one romy_async_query(command) answered by ev; rq is
\* romy_async_query(romy, ev).
Issue(command, ev, rq) ==
    /\ sent' = Append(sent, Entry(romy._port, command, rq.q))
    /\ last' = Seen(romy._port, command, ev, rq.q)

\* self.<field> = obj[key], raising KeyError when the key is missing. st is
\* [romy, raised]; once raised, nothing more is assigned.
Assign(st, field, obj, key) ==
    IF st.raised THEN st
    ELSE IF key \notin DOMAIN obj THEN [st EXCEPT !.raised = TRUE]
    ELSE [st EXCEPT !.romy[field] = obj[key]]

\* The same for an attribute typed None | T.
AssignSome(st, field, obj, key) ==
    IF st.raised THEN st
    ELSE IF key \notin DOMAIN obj THEN [st EXCEPT !.raised = TRUE]
    ELSE [st EXCEPT !.romy[field] = Some(obj[key])]

\* json.loads(response): raises when the response is not JSON. The
\* assignments that follow read response.obj.
Loads(r, response) == [romy |-> r, raised |-> ~response.valid]

\* A query whose result leaves the session as romy_async_query left it.
Unchanged(r) == [romy |-> r, raised |-> FALSE]

-----------------------------------------------------------------------------
(* _init: port probing *)

\* The 403 branch without its assignment of the lock flag.
probe_result_locked_not_flagged(r, port, http_status) ==
    IF http_status = 400
    THEN [r EXCEPT !._local_http_interface_is_locked = FALSE,
                   !._initialized = TRUE,
                   !._port = port]
    ELSE IF http_status = 403
    THEN [r EXCEPT !._initialized = TRUE,
                   !._port = port]
    ELSE r

\* The 403 branch without its assignment of the port.
probe_result_locked_keeps_port(r, port, http_status) ==
    IF http_status = 400
    THEN [r EXCEPT !._local_http_interface_is_locked = FALSE,
                   !._initialized = TRUE,
                   !._port = port]
    ELSE IF http_status = 403
    THEN [r EXCEPT !._initialized = TRUE,
                   !._local_http_interface_is_locked = TRUE]
    ELSE r

\* romy.py 58-68: what one probe's status does to the session.
probe_result(r, port, http_status) ==
    IF http_status = 400
    THEN [r EXCEPT !._local_http_interface_is_locked = FALSE,
                   !._initialized = TRUE,
                   !._port = port]
    ELSE IF http_status = 403
    THEN [r EXCEPT !._initialized = TRUE,
                   !._port = port,
                   !._local_http_interface_is_locked = TRUE]
    ELSE r

\* The loop with the break of the 400 branch missing.
probe_break_only_locked(http_status) == http_status = 403

\* romy.py 58-68: whether the loop breaks after this probe.
probe_break(http_status) == http_status = 400 \/ http_status = 403

\* romy.py 54: _init starts from "not initialized".
_init_start(r) == [r EXCEPT !._initialized = FALSE]

\* No call of the query primitive is followed on its own.
NoCall == [pc |-> "idle", port |-> 0, command |-> "", error_log_level |-> "",
           gets |-> <<>>, ev |-> None, result |-> None]

\* One caller makes its calls one after the other, against a network whose
\* answers are not fixed beforehand.
NoOthers ==
    /\ query = NoCall
    /\ device = EmptyDict
    /\ before = None
    /\ tasks = <<>>
    /\ applied = None

\* create_romy: RomyRobot(host, password), then _init up to its first await.
Init ==
    /\ \E password \in Passwords : romy = _init_start(RomyRobot(password))
    /\ pc = "probe"
    /\ i = 1
    /\ op = "create_romy"
    /\ sent = <<>>
    /\ probed = <<>>
    /\ last = NoQuery
    /\ retval = ""
    /\ net = "any"
    /\ NoOthers

\* The same against a robot.
InitRobot ==
    /\ \E password \in RobotPasswords : romy = _init_start(RomyRobot(password))
    /\ pc = "probe"
    /\ i = 1
    /\ op = "create_romy"
    /\ sent = <<>>
    /\ probed = <<>>
    /\ last = NoQuery
    /\ retval = ""
    /\ net = "robot"
    /\ NoOthers

\* romy.py 56-68: one iteration of the loop over self._ports.
Probe ==
    /\ pc = "probe"
    /\ \E ev \in Answers(ProbeEvents) :
        LET port == romy._ports[i]
            q == async_query_with_http_status(ev)
        IN  /\ romy' = probe_result(romy, port, q.http_status)
            /\ probed' = Append(probed, [port |-> port, http_status |-> q.http_status])
            /\ sent' = Append(sent, Entry(port, "ishttpinterfacelocked", q))
            /\ last' = Seen(port, "ishttpinterfacelocked", ev, q)
            /\ IF probe_break(q.http_status) \/ i = Len(romy._ports)
               THEN pc' = "unlock" /\ i' = i
               ELSE pc' = "probe" /\ i' = i + 1
    /\ UNCHANGED <<op, retval, net, others>>

\* The length test as "at least 8 chars".
password_ok_at_least(password) == Len(password) >= 8

\* romy.py 72: the password can unlock the interface only if it has 8 chars.
password_ok(password) == Len(password) = 8

\* The unlock whose success is not recorded.
unlock_result_not_recorded(r, ret) == r

\* romy.py 76-80: what the unlock query's result does to the session.
unlock_result(r, ret) ==
    IF ret THEN [r EXCEPT !._local_http_interface_is_locked = FALSE] ELSE r

\* romy.py 71-80: unlock the interface if the probe found it locked.
Unlock ==
    /\ pc = "unlock"
    /\ \/ /\ ~romy._local_http_interface_is_locked
          /\ UNCHANGED <<romy, sent, last>>
       \/ /\ romy._local_http_interface_is_locked
          /\ ~password_ok(romy._password)
          /\ UNCHANGED <<romy, sent, last>>
       \/ /\ romy._local_http_interface_is_locked
          /\ password_ok(romy._password)
          /\ \E ev \in Answers(FailEvents \cup {Ok}) :
                LET rq == romy_async_query(romy, ev)
                IN  /\ Issue("set/unlock_http?pass=" \o romy._password, ev, rq)
                    /\ romy' = unlock_result(rq.romy, rq.q.ret)
    /\ pc' = "get/robot_name"
    /\ UNCHANGED <<i, op, probed, retval, net, others>>

\* Answers to get/robot_name: the name, a JSON object without it, no JSON.
RobotNameEvents ==
    FailEvents \cup { Response(200, Json([name |-> "Rosie"])), Ok, NotJson }

\* Answers to get/robot_id: complete, without unique_id/model/firmware.
RobotIdEvents ==
    FailEvents \cup
    { Response(200, Json([name |-> "ROMY", unique_id |-> "A1", model |-> "L6",
                          firmware |-> "3.1"])),
      Response(200, Json([name |-> "ROMY"])) }

\* The test of ret inverted: the body is parsed when the query failed.
robot_name_result_inverted(r, q) ==
    IF ~q.ret
    THEN Assign(Loads(r, q.response), "_user_name", q.response.obj, "name")
    ELSE Unchanged([r EXCEPT !._initialized = FALSE])

\* romy.py 85-89
robot_name_result(r, q) ==
    IF q.ret
    THEN Assign(Loads(r, q.response), "_user_name", q.response.obj, "name")
    ELSE Unchanged([r EXCEPT !._initialized = FALSE])

\* romy.py 94-98
robot_id_assignments(r, response) ==
    Assign(Assign(Assign(Assign(Loads(r, response),
                                "_name", response.obj, "name"),
                         "_unique_id", response.obj, "unique_id"),
                  "_model", response.obj, "model"),
           "_firmware", response.obj, "firmware")

\* The else branch missing: a failed get/robot_id is ignored.
robot_id_result_ignores_failure(r, q) ==
    IF q.ret THEN robot_id_assignments(r, q.response) ELSE Unchanged(r)

\* romy.py 93-100
robot_id_result(r, q) ==
    IF q.ret
    THEN robot_id_assignments(r, q.response)
    ELSE Unchanged([r EXCEPT !._initialized = FALSE])

\* Where a step of the call goes: on to next, or out with the exception.
\* An exception in _init leaves create_romy without a session returned; one
\* in a later call leaves the session to its caller.
Goto(raised, next) ==
    IF raised
    THEN /\ pc' = IF op = "create_romy" THEN "raised" ELSE "idle"
         /\ retval' = "raised"
    ELSE /\ pc' = next
         /\ retval' = retval

\* The step that gives up the call when its query fails.
Step_returns_on_failure(command, ev, rq, st, next) ==
    /\ Issue(command, ev, rq)
    /\ romy' = st.romy
    /\ IF rq.q.ret
       THEN Goto(st.raised, next)
       ELSE /\ pc' = "idle"
            /\ retval' = IF op = "create_romy" THEN "self" ELSE "None"

\* One query of a call of several: the bookkeeping, the session as the
\* query's result st leaves it, and on to next.
Step(command, ev, rq, st, next) ==
    /\ Issue(command, ev, rq)
    /\ romy' = st.romy
    /\ Goto(st.raised, next)

\* romy.py 84-89
GetRobotName ==
    /\ pc = "get/robot_name"
    /\ \E ev \in Answers(RobotNameEvents) :
        LET rq == romy_async_query(romy, ev)
        IN  Step("get/robot_name", ev, rq, robot_name_result(rq.romy, rq.q),
                 "get/robot_id")
    /\ UNCHANGED <<i, op, probed, net, others>>

\* romy.py 92-108, up to the first await of async_update
GetRobotId ==
    /\ pc = "get/robot_id"
    /\ \E ev \in Answers(RobotIdEvents) :
        LET rq == romy_async_query(romy, ev)
        IN  Step("get/robot_id", ev, rq, robot_id_result(rq.romy, rq.q),
                 "get/status")
    /\ UNCHANGED <<i, op, probed, net, others>>

-----------------------------------------------------------------------------
(* async_update *)

\* Whether o[k1][k2][k3] can be read.
HasPath(o, k1, k2, k3) ==
    /\ k1 \in DOMAIN o
    /\ k2 \in DOMAIN o[k1]
    /\ k3 \in DOMAIN o[k1][k2]

GoodStatus(mode, level) == Response(200, Json([mode |-> mode, battery_level |-> level]))

\* Answers to get/status: well-formed, and without battery_level.
StatusEvents ==
    FailEvents \cup { GoodStatus("ready", 80),
                      Response(200, Json([mode |-> "cleaning"])) }

\* Answers to get/cleaning_parameter_set.
CleaningParameterSetEvents ==
    FailEvents \cup { Response(200, Json([cleaning_parameter_set |-> 2])), Ok }

\* Answers to get/wifi_status.
WifiStatusEvents == FailEvents \cup { Response(200, Json([rssi |-> -60])), Ok }

GpioEntry(name, value) ==
    [device_descriptor |-> name, payload |-> [data |-> [value |-> value]]]

AdcEntry(name, value) ==
    [device_descriptor |-> name, payload |-> [data |-> [values |-> <<value>>]]]

GpioGroup ==
    [device_type |-> "gpio",
     sensor_data |-> << GpioEntry("dustbin", "active"),
                        GpioEntry("dock", "inactive"),
                        GpioEntry("bumper", "active") >>]

AdcGroup ==
    [device_type |-> "adc",
     sensor_data |-> << AdcEntry("dustbin_sensor", 42), AdcEntry("cliff", 7) >>]

\* An adc group whose dustbin_sensor entry has no payload.
BadAdcGroup ==
    [device_type |-> "adc",
     sensor_data |-> << [device_descriptor |-> "dustbin_sensor"] >>]

\* Answers to get/sensor_values: well-formed, and one whose gpio group is
\* followed by a malformed adc group.
SensorValuesEvents ==
    FailEvents \cup
    { Response(200, Json([sensor_data |-> <<GpioGroup, AdcGroup>>])),
      Response(200, Json([sensor_data |-> <<GpioGroup, BadAdcGroup>>])),
      NotJson }

\* Answers to get/statistics: well-formed, and one with the distance only.
StatisticsEvents ==
    FailEvents \cup
    { Response(200, Json([total_distance_driven |-> 1000,
                          total_cleaning_time |-> 128,
                          total_area_cleaned |-> 90,
                          total_number_of_cleaning_runs |-> 7])),
      Response(200, Json([total_distance_driven |-> 1000])) }

\* A failed get/status handled as the identity queries handle a failure.
status_result_clears_initialized(r, q) ==
    IF q.ret
    THEN AssignSome(AssignSome(Loads(r, q.response),
                               "_status", q.response.obj, "mode"),
                    "_battery_level", q.response.obj, "battery_level")
    ELSE Unchanged([r EXCEPT !._initialized = FALSE])

\* romy.py 251-254
status_result(r, q) ==
    IF q.ret
    THEN AssignSome(AssignSome(Loads(r, q.response),
                               "_status", q.response.obj, "mode"),
                    "_battery_level", q.response.obj, "battery_level")
    ELSE Unchanged(r)

\* romy.py 262
record_battery_level(st) ==
    IF st.raised THEN st
    ELSE [st EXCEPT !.romy._sensors =
                        DictSet(@, "battery_level", st.romy._battery_level)]

\* romy.py 257-262
cleaning_parameter_set_result(r, q) ==
    record_battery_level(
        IF q.ret
        THEN Assign(Loads(r, q.response), "_fan_speed", q.response.obj,
                    "cleaning_parameter_set")
        ELSE Unchanged(r))

\* The assignment as +=, once the sensor has a value.
AssignSensor_accumulates(st, name, obj, key, scale) ==
    IF st.raised THEN st
    ELSE IF key \notin DOMAIN obj THEN [st EXCEPT !.raised = TRUE]
    ELSE LET value == IF scale = 0 THEN obj[key] ELSE round2(obj[key], scale)
         IN  [st EXCEPT !.romy._sensors =
                            DictSet(@, name,
                                    IF name \in DOMAIN @
                                    THEN Some(@[name][1] + value)
                                    ELSE Some(value))]

\* self._sensors[name] = obj[key], or round(obj[key] / scale, 2) when a
\* scale is given (0: none); raises KeyError without the key.
AssignSensor(st, name, obj, key, scale) ==
    IF st.raised THEN st
    ELSE IF key \notin DOMAIN obj THEN [st EXCEPT !.raised = TRUE]
    ELSE [st EXCEPT !.romy._sensors =
                        DictSet(@, name,
                                Some(IF scale = 0 THEN obj[key]
                                     ELSE round2(obj[key], scale)))]

\* romy.py 265-267
wifi_status_result(r, q) ==
    IF q.ret
    THEN AssignSensor(Loads(r, q.response), "rssi", q.response.obj, "rssi", 0)
    ELSE Unchanged(r)

\* romy.py 280-284: one gpio sensor against one supported name.
gpio_sensor_result(st, gpio_sensor, supported_binary_sensor) ==
    IF st.raised THEN st
    ELSE IF "device_descriptor" \notin DOMAIN gpio_sensor
    THEN [st EXCEPT !.raised = TRUE]
    ELSE IF gpio_sensor.device_descriptor # supported_binary_sensor THEN st
    ELSE IF ~HasPath(gpio_sensor, "payload", "data", "value")
    THEN [st EXCEPT !.raised = TRUE]
    ELSE [st EXCEPT !.romy._binary_sensors =
                        DictSet(@, supported_binary_sensor,
                                gpio_sensor.payload.data.value = "active")]

\* romy.py 291-292: one adc sensor against one supported name.
adc_sensor_result(st, adc_sensor, supported_adc_sensor) ==
    IF st.raised THEN st
    ELSE IF "device_descriptor" \notin DOMAIN adc_sensor
    THEN [st EXCEPT !.raised = TRUE]
    ELSE IF adc_sensor.device_descriptor # supported_adc_sensor THEN st
    ELSE IF \/ ~HasPath(adc_sensor, "payload", "data", "values")
            \/ adc_sensor.payload.data.values = <<>>
    THEN [st EXCEPT !.raised = TRUE]
    ELSE [st EXCEPT !.romy._sensors =
                        DictSet(@, supported_adc_sensor,
                                Some(adc_sensor.payload.data.values[1]))]

RECURSIVE for_supported_binary_sensor(_, _, _)
\* romy.py 279-284: for supported_binary_sensor in names
for_supported_binary_sensor(st, gpio_sensor, names) ==
    IF names = <<>> THEN st
    ELSE for_supported_binary_sensor(
             gpio_sensor_result(st, gpio_sensor, Head(names)), gpio_sensor,
             Tail(names))

RECURSIVE for_gpio_sensor(_, _)
\* romy.py 278-284: for gpio_sensor in gpio_sensors
for_gpio_sensor(st, gpio_sensors) ==
    IF gpio_sensors = <<>> THEN st
    ELSE for_gpio_sensor(
             for_supported_binary_sensor(st, Head(gpio_sensors),
                                         supported_binary_sensors),
             Tail(gpio_sensors))

RECURSIVE for_supported_adc_sensor(_, _, _)
\* romy.py 290-292: for supported_adc_sensor in names
for_supported_adc_sensor(st, adc_sensor, names) ==
    IF names = <<>> THEN st
    ELSE for_supported_adc_sensor(
             adc_sensor_result(st, adc_sensor, Head(names)), adc_sensor,
             Tail(names))

RECURSIVE for_adc_sensor(_, _)
\* romy.py 289-292: for adc_sensor in adc_sensors
for_adc_sensor(st, adc_sensors) ==
    IF adc_sensors = <<>> THEN st
    ELSE for_adc_sensor(
             for_supported_adc_sensor(st, Head(adc_sensors),
                                      supported_adc_sensors),
             Tail(adc_sensors))

\* romy.py 276-292: one entry of sensor_values["sensor_data"].
sensor_group_result(st, sensor) ==
    IF st.raised THEN st
    ELSE IF "device_type" \notin DOMAIN sensor THEN [st EXCEPT !.raised = TRUE]
    ELSE IF sensor.device_type \in {"gpio", "adc"} /\ "sensor_data" \notin DOMAIN sensor
    THEN [st EXCEPT !.raised = TRUE]
    ELSE IF sensor.device_type = "gpio" THEN for_gpio_sensor(st, sensor.sensor_data)
    ELSE IF sensor.device_type = "adc" THEN for_adc_sensor(st, sensor.sensor_data)
    ELSE st

RECURSIVE for_sensor(_, _)
\* romy.py 273-292: for sensor in sensor_values["sensor_data"]
for_sensor(st, sensor_data) ==
    IF sensor_data = <<>> THEN st
    ELSE for_sensor(sensor_group_result(st, Head(sensor_data)), Tail(sensor_data))

\* romy.py 271-292
sensor_values_result(r, q) ==
    IF ~q.ret THEN Unchanged(r)
    ELSE IF ~q.response.valid \/ "sensor_data" \notin DOMAIN q.response.obj
    THEN [romy |-> r, raised |-> TRUE]
    ELSE for_sensor(Loads(r, q.response), q.response.obj.sensor_data)

\* romy.py 296-301
statistics_result(r, q) ==
    IF q.ret
    THEN AssignSensor(
           AssignSensor(
             AssignSensor(
               AssignSensor(Loads(r, q.response),
                            "total_distance_driven", q.response.obj,
                            "total_distance_driven", 128),
               "total_cleaning_time", q.response.obj, "total_cleaning_time", 64),
             "total_area_cleaned", q.response.obj, "total_area_cleaned", 64),
           "total_number_of_cleaning_runs", q.response.obj,
           "total_number_of_cleaning_runs", 0)
    ELSE Unchanged(r)

\* romy.py 250-254
UpdateStatus ==
    /\ pc = "get/status"
    /\ \E ev \in Answers(StatusEvents) :
        LET rq == romy_async_query(romy, ev)
        IN  Step("get/status", ev, rq, status_result(rq.romy, rq.q),
                 "get/cleaning_parameter_set")
    /\ UNCHANGED <<i, op, probed, net, others>>

\* romy.py 256-262
UpdateCleaningParameterSet ==
    /\ pc = "get/cleaning_parameter_set"
    /\ \E ev \in Answers(CleaningParameterSetEvents) :
        LET rq == romy_async_query(romy, ev)
        IN  Step("get/cleaning_parameter_set", ev, rq,
                 cleaning_parameter_set_result(rq.romy, rq.q), "get/wifi_status")
    /\ UNCHANGED <<i, op, probed, net, others>>

\* romy.py 264-267
UpdateWifiStatus ==
    /\ pc = "get/wifi_status"
    /\ \E ev \in Answers(WifiStatusEvents) :
        LET rq == romy_async_query(romy, ev)
        IN  Step("get/wifi_status", ev, rq, wifi_status_result(rq.romy, rq.q),
                 "get/sensor_values")
    /\ UNCHANGED <<i, op, probed, net, others>>

\* romy.py 270-292
UpdateSensorValues ==
    /\ pc = "get/sensor_values"
    /\ \E ev \in Answers(SensorValuesEvents) :
        LET rq == romy_async_query(romy, ev)
        IN  Step("get/sensor_values", ev, rq,
                 sensor_values_result(rq.romy, rq.q), "get/statistics")
    /\ UNCHANGED <<i, op, probed, net, others>>

\* romy.py 295-301, and the return of async_update (and of _init, 110-113)
UpdateStatistics ==
    /\ pc = "get/statistics"
    /\ \E ev \in Answers(StatisticsEvents) :
        LET rq == romy_async_query(romy, ev)
            st == statistics_result(rq.romy, rq.q)
        IN  /\ Issue("get/statistics", ev, rq)
            /\ romy' = st.romy
            /\ pc' = IF st.raised /\ op = "create_romy" THEN "raised" ELSE "idle"
            /\ retval' = IF st.raised THEN "raised"
                         ELSE IF op = "create_romy" THEN "self" ELSE "None"
    /\ UNCHANGED <<i, op, probed, net, others>>

async_update ==
    \/ UpdateStatus
    \/ UpdateCleaningParameterSet
    \/ UpdateWifiStatus
    \/ UpdateSensorValues
    \/ UpdateStatistics

_init == Probe \/ Unlock \/ GetRobotName \/ GetRobotId

-----------------------------------------------------------------------------
(* The calls a caller makes on the session create_romy returned *)

\* The highest fan speed a caller asks for.
MaxFanSpeed == 3

\* The fan speeds and the name a caller asks for.
FanSpeeds == 1..MaxFanSpeed

NewNames == {"NiosHD"}

\* Answers to get/protocol_version.
ProtocolVersionEvents ==
    FailEvents \cup
    { Response(200, Json([version_major |-> 1, version_minor |-> 2,
                          patch_level |-> 3])), Ok }

\* What a call returns, as Python prints it.
Repr(b) == IF b THEN "True" ELSE "False"

Quoted(str) == "'" \o str \o "'"

\* A call made of a single romy_async_query(command) answered by ev: the
\* bookkeeping, the session as the query's result st leaves it, and the
\* value the call returns.
Command(name, command, ev, rq, st, value) ==
    /\ sent' = <<Entry(romy._port, command, rq.q)>>
    /\ last' = Seen(romy._port, command, ev, rq.q)
    /\ romy' = st.romy
    /\ retval' = IF st.raised THEN "raised" ELSE value
    /\ op' = name
    /\ pc' = "idle"
    /\ UNCHANGED <<i, probed, net, others>>

\* The session is with its caller: create_romy has returned it and no call
\* on it is in progress.
Callable == pc = "idle" /\ retval # ""

\* Answers to a set/ command.
CommandEvents == FailEvents \cup {Ok}

\* romy.py 217-221
async_clean_start_or_continue ==
    /\ Callable
    /\ \E ev \in CommandEvents :
            LET rq == romy_async_query(romy, ev)
            IN  Command("async_clean_start_or_continue",
                        "set/clean_start_or_continue?cleaning_parameter_set="
                            \o ToString(romy._fan_speed),
                        ev, rq, Unchanged(rq.romy), Repr(rq.q.ret))

\* romy.py 223-226: the function ends without a return statement.
async_clean_all ==
    /\ Callable
    /\ \E ev \in CommandEvents :
            LET rq == romy_async_query(romy, ev)
            IN  Command("async_clean_all",
                        "set/clean_all?cleaning_parameter_set="
                            \o ToString(romy._fan_speed),
                        ev, rq, Unchanged(rq.romy), "None")

\* romy.py 228-232
async_stop ==
    /\ Callable
    /\ \E ev \in CommandEvents :
            LET rq == romy_async_query(romy, ev)
            IN  Command("async_stop", "set/stop", ev, rq, Unchanged(rq.romy),
                        Repr(rq.q.ret))

\* romy.py 234-238
async_return_to_base ==
    /\ Callable
    /\ \E ev \in CommandEvents :
            LET rq == romy_async_query(romy, ev)
            IN  Command("async_return_to_base", "set/go_home", ev, rq,
                        Unchanged(rq.romy), Repr(rq.q.ret))

\* The assignment made whatever the query returned.
set_fan_speed_result_unconditional(r, q, fan_speed) ==
    Unchanged([r EXCEPT !._fan_speed = fan_speed])

\* The test of ret inverted.
set_fan_speed_result_inverted(r, q, fan_speed) ==
    Unchanged(IF ~q.ret THEN [r EXCEPT !._fan_speed = fan_speed] ELSE r)

\* romy.py 243-244
set_fan_speed_result(r, q, fan_speed) ==
    Unchanged(IF q.ret THEN [r EXCEPT !._fan_speed = fan_speed] ELSE r)

\* romy.py 240-244
async_set_fan_speed ==
    /\ Callable
    /\ \E fan_speed \in FanSpeeds, ev \in CommandEvents :
            LET rq == romy_async_query(romy, ev)
            IN  Command("async_set_fan_speed",
                        "set/switch_cleaning_parameter_set?cleaning_parameter_set="
                            \o ToString(fan_speed),
                        ev, rq, set_fan_speed_result(rq.romy, rq.q, fan_speed), "None")

\* romy.py 155-156
set_user_name_result(r, q, new_name) ==
    Unchanged(IF q.ret THEN [r EXCEPT !._user_name = new_name] ELSE r)

\* romy.py 153-156
set_user_name ==
    /\ Callable
    /\ \E new_name \in NewNames, ev \in CommandEvents :
            LET rq == romy_async_query(romy, ev)
            IN  Command("set_user_name", "set/robot_name?name=" \o new_name,
                        ev, rq, set_user_name_result(rq.romy, rq.q, new_name), "None")

\* romy.py 209-211: json.loads and the three keys the version is made of.
protocol_version_result(r, q) ==
    IF q.ret
    THEN [romy |-> r,
          raised |-> \/ ~q.response.valid
                     \/ {"version_major", "version_minor", "patch_level"}
                            \ DOMAIN q.response.obj # {}]
    ELSE Unchanged(r)

\* romy.py 207-214: the value returned when nothing is raised.
protocol_version(q) ==
    IF q.ret /\ ~protocol_version_result(romy, q).raised
    THEN Quoted(ToString(q.response.obj.version_major) \o "."
                \o ToString(q.response.obj.version_minor) \o "."
                \o ToString(q.response.obj.patch_level))
    ELSE Quoted("")

\* romy.py 205-214
get_protocol_version ==
    /\ Callable
    /\ \E ev \in ProtocolVersionEvents :
            LET rq == romy_async_query(romy, ev)
            IN  Command("get_protocol_version", "get/protocol_version", ev, rq,
                        protocol_version_result(rq.romy, rq.q),
                        protocol_version(rq.q))

\* A caller's call of async_update, up to its first await (romy.py 246-250).
\* Against a device, the session is remembered as it is at the call.
CallUpdate ==
    /\ Callable
    /\ op' = "async_update"
    /\ pc' = "get/status"
    /\ sent' = <<>>
    /\ retval' = ""
    /\ before' = IF net = "device" THEN Some(romy) ELSE before
    /\ UNCHANGED <<romy, i, probed, last, net, query, device, tasks, applied>>

Commands ==
    \/ async_clean_start_or_continue
    \/ async_clean_all
    \/ async_stop
    \/ async_return_to_base
    \/ async_set_fan_speed
    \/ set_user_name
    \/ get_protocol_version

Next == _init \/ async_update \/ CallUpdate \/ Commands

\* create_romy against any network, and no call after it.
SpecInit == Init /\ [][_init \/ async_update]_vars

\* create_romy against a robot, then any calls against any network.
Spec == InitRobot /\ [][Next]_vars

-----------------------------------------------------------------------------
(* Refreshes against a device whose responses do not change *)

\* The devices: one answer to each sub-fetch of async_update.
Devices ==
    { [c \in {"get/status", "get/cleaning_parameter_set", "get/wifi_status",
              "get/sensor_values", "get/statistics"} |->
          CASE c = "get/status" -> status
            [] c = "get/cleaning_parameter_set" -> cleaning_parameter_set
            [] c = "get/wifi_status" -> wifi_status
            [] c = "get/sensor_values" -> sensor_values
            [] c = "get/statistics" -> statistics] :
        status \in StatusEvents,
        cleaning_parameter_set \in CleaningParameterSetEvents,
        wifi_status \in WifiStatusEvents,
        sensor_values \in SensorValuesEvents,
        statistics \in StatisticsEvents }

\* create_romy against a device.
InitDevice ==
    /\ romy = _init_start(RomyRobot("12345678"))
    /\ pc = "probe"
    /\ i = 1
    /\ op = "create_romy"
    /\ sent = <<>>
    /\ probed = <<>>
    /\ last = NoQuery
    /\ retval = ""
    /\ net = "device"
    /\ query = NoCall
    /\ device \in Devices
    /\ before = None
    /\ tasks = <<>>
    /\ applied = None

\* create_romy against a device, then one refresh after the other.
SpecDevice == InitDevice /\ [][_init \/ async_update \/ CallUpdate]_vars

-----------------------------------------------------------------------------
(* Two calls of async_set_fan_speed in progress at once on one session *)

\* A call of async_set_fan_speed(fan_speed) that has not run yet.
Task(fan_speed) ==
    [pc |-> "start", fan_speed |-> fan_speed, port |-> 0,
     error_log_level |-> "", ev |-> None]

SetFanSpeedCommand(fan_speed) ==
    "set/switch_cleaning_parameter_set?cleaning_parameter_set="
        \o ToString(fan_speed)

\* The caller starts async_set_fan_speed(a) and async_set_fan_speed(b) as two
\* tasks and awaits both.
Gather ==
    /\ Callable
    /\ tasks = <<>>
    /\ \E a \in FanSpeeds :
          \E b \in FanSpeeds \ {a} : tasks' = <<Task(a), Task(b)>>
    /\ op' = "gather"
    /\ pc' = "gather"
    /\ sent' = <<>>
    /\ retval' = ""
    /\ UNCHANGED <<romy, i, probed, last, net, query, device, before, applied>>

\* romy.py 242, 117 and utils.py 28-38: a task runs up to the await of its
\* GET; the port and the log level are read from the session at this point.
TaskSend ==
    /\ pc = "gather"
    /\ \E t \in DOMAIN tasks :
        /\ tasks[t].pc = "start"
        /\ tasks' = [tasks EXCEPT
                        ![t].pc = "sent",
                        ![t].port = romy._port,
                        ![t].error_log_level =
                            romy.romy_async_query_error_log_level]
    /\ UNCHANGED <<romy, pc, i, op, sent, probed, last, retval, net,
                   query, device, before, applied>>

\* The robot handles one of the GETs it was sent, in whatever order they
\* reach it: it switches to the fan speed and answers 200, or it refuses, or
\* the answer does not come in time.
DeviceApply ==
    /\ pc = "gather"
    /\ \E t \in DOMAIN tasks, ev \in CommandEvents :
        /\ tasks[t].pc = "sent"
        /\ tasks' = [tasks EXCEPT ![t].pc = "answered", ![t].ev = Some(ev)]
        /\ applied' = IF ev = Ok THEN Some(tasks[t].fan_speed) ELSE applied
    /\ UNCHANGED <<romy, pc, i, op, sent, probed, last, retval, net,
                   query, device, before>>

\* utils.py 38-56 and romy.py 117-131, 243-244: a task whose GET is answered
\* resumes and runs to its end.
TaskResume ==
    /\ pc = "gather"
    /\ \E t \in DOMAIN tasks :
        /\ tasks[t].pc = "answered"
        /\ LET ev == tasks[t].ev[1]
               q == async_query(ev, tasks[t].error_log_level)
               r == [romy EXCEPT !.romy_async_query_error_log_level =
                                     romy_async_query_level(q.ret)]
               command == SetFanSpeedCommand(tasks[t].fan_speed)
           IN  /\ romy' = set_fan_speed_result(r, q, tasks[t].fan_speed).romy
               /\ sent' = Append(sent, Entry(tasks[t].port, command, q))
               /\ last' = Seen(tasks[t].port, command, ev, q)
        /\ tasks' = [tasks EXCEPT ![t].pc = "done"]
    /\ UNCHANGED <<pc, i, op, probed, retval, net, query, device, before, applied>>

\* Both tasks are done: the caller goes on.
Gathered ==
    /\ pc = "gather"
    /\ \A t \in DOMAIN tasks : tasks[t].pc = "done"
    /\ tasks' = <<>>
    /\ pc' = "idle"
    /\ retval' = "None"
    /\ UNCHANGED <<romy, i, op, sent, probed, last, net, query, device, before,
                   applied>>

\* create_romy against a robot, then pairs of concurrent async_set_fan_speed.
SpecTasks ==
    InitRobot /\ [][_init \/ async_update \/ Gather \/ TaskSend \/ DeviceApply
                      \/ TaskResume \/ Gathered]_vars

-----------------------------------------------------------------------------
(* utils.py: one call of the query primitive, await by await *)

host == "192.168.1.181"

\* utils.py 36
Url(port, command) == "http://" \o host \o ":" \o ToString(port) \o "/" \o command

\* The commands and the log levels the primitive is called with.
QueryCommands == {"ishttpinterfacelocked", "get/status", "set/stop"}

LogLevels == {"ERROR", "DEBUG"}

\* The statuses a server answers with, and the bodies.
QueryStatuses == {200, 204, 400, 403, 404, 500}

QueryBodies == {Text(""), Json(EmptyDict)}

\* The session is not used while the primitive is followed on its own.
InitQuery ==
    /\ romy = RomyRobot("12345678")
    /\ pc = "idle"
    /\ i = 1
    /\ op = "_async_query"
    /\ sent = <<>>
    /\ probed = <<>>
    /\ last = NoQuery
    /\ retval = ""
    /\ net = "any"
    /\ NoOthers

\* utils.py 28-35: a caller calls _async_query(host, port, command, timeout,
\* error_log_level).
QueryCall ==
    /\ query.pc \in {"idle", "done"}
    /\ \E port \in {8080, 10009, 80}, command \in QueryCommands,
          error_log_level \in LogLevels :
            query' = [NoCall EXCEPT !.pc = "get", !.port = port,
                                    !.command = command,
                                    !.error_log_level = error_log_level]
    /\ UNCHANGED <<romy, pc, i, op, sent, probed, last, retval, net,
                   device, before, tasks, applied>>

\* utils.py 36-38: the GET is sent, and the call awaits the response.
QueryGet ==
    /\ query.pc = "get"
    /\ query' = [query EXCEPT !.pc = "status",
                              !.gets = Append(@, Url(query.port, query.command))]
    /\ UNCHANGED <<romy, pc, i, op, sent, probed, last, retval, net,
                   device, before, tasks, applied>>

\* utils.py 38-45: the status line and the headers have come; the call
\* awaits the body.
QueryStatus ==
    /\ query.pc = "status"
    /\ \E status \in QueryStatuses :
            query' = [query EXCEPT !.pc = "read",
                                  !.ev = Some(Response(status, Text("")))]
    /\ UNCHANGED <<romy, pc, i, op, sent, probed, last, retval, net,
                   device, before, tasks, applied>>

\* utils.py 45-49: the body has come; the call returns.
QueryRead ==
    /\ query.pc = "read"
    /\ \E body \in QueryBodies :
            LET ev == Response(query.ev[1].status, body)
            IN  query' = [query EXCEPT
                            !.pc = "done",
                            !.ev = Some(ev),
                            !.result = Some(_async_query(ev, query.error_log_level))]
    /\ UNCHANGED <<romy, pc, i, op, sent, probed, last, retval, net,
                   device, before, tasks, applied>>

\* utils.py 35, 51-53: the timeout expires during one of the two awaits.
QueryTimeout ==
    /\ query.pc \in {"status", "read"}
    /\ query' = [query EXCEPT
                    !.pc = "done",
                    !.ev = Some(Timeout),
                    !.result = Some(_async_query(Timeout, query.error_log_level))]
    /\ UNCHANGED <<romy, pc, i, op, sent, probed, last, retval, net,
                   device, before, tasks, applied>>

\* utils.py 54-56: the transport fails during one of the two awaits.
QueryClientError ==
    /\ query.pc \in {"status", "read"}
    /\ query' = [query EXCEPT
                    !.pc = "done",
                    !.ev = Some(ClientError),
                    !.result = Some(_async_query(ClientError, query.error_log_level))]
    /\ UNCHANGED <<romy, pc, i, op, sent, probed, last, retval, net,
                   device, before, tasks, applied>>

NextQuery ==
    \/ QueryCall
    \/ QueryGet
    \/ QueryStatus
    \/ QueryRead
    \/ QueryTimeout
    \/ QueryClientError

\* Calls of the query primitive, one after the other.
SpecQuery == InitQuery /\ [][NextQuery]_vars

-----------------------------------------------------------------------------
(* Properties *)

ProbeCommand == "ishttpinterfacelocked"

UnlockCommand == "set/unlock_http?pass=" \o romy._password

\* The sub-fetches of async_update, in the order of the code.
UpdateCommands ==
    << "get/status", "get/cleaning_parameter_set", "get/wifi_status",
       "get/sensor_values", "get/statistics" >>

UpdateCommandSet == {UpdateCommands[k] : k \in 1..Len(UpdateCommands)}

\* The queries of sent with this command.
Sent(command) == SelectSeq(sent, LAMBDA e : e.command = command)

Succeeded(command) == \E k \in 1..Len(sent) : sent[k].command = command /\ sent[k].ret

Failed(command) == \E k \in 1..Len(sent) : sent[k].command = command /\ ~sent[k].ret

\* create_romy has returned the session and no call was made since.
InitReturned == op = "create_romy" /\ pc = "idle"

\* This step issues a query (last' is that query).
Issues == sent' # sent /\ sent' # <<>>

\* C1: create_romy probes the ports 8080, 10009, 80 in this order, each at
\* most once, before any other query; a port answering 400 or 403 is the last
\* one probed; and after a 400 the interface counts as unlocked and that port
\* is the session's port.
C1_ProbeOrder ==
    op = "create_romy" =>
        /\ Len(probed) <= 3
        /\ \A k \in 1..Len(probed) : probed[k].port = <<8080, 10009, 80>>[k]
        /\ Len(Sent(ProbeCommand)) = Len(probed)
        /\ \A k \in 1..Len(probed) :
              /\ sent[k].command = ProbeCommand
              /\ sent[k].port = probed[k].port
        /\ \A k \in 1..Len(probed) :
              probed[k].http_status \in {400, 403} => k = Len(probed) /\ pc # "probe"
        /\ \A k \in 1..Len(probed) :
              probed[k].http_status = 400 =>
                  /\ ~romy._local_http_interface_is_locked
                  /\ romy._port = probed[k].port

\* C1: the first port answered 400 and create_romy has returned.
C1_Witness ==
    /\ InitReturned
    /\ Len(probed) = 1
    /\ probed[1].http_status = 400
    /\ Len(sent) > 1

\* C2: a port answering 403 is the last one probed, and right after it the
\* interface counts as locked; with a password that is not 8 characters long
\* no unlock query is ever issued, and after a 403 the interface then stays
\* locked to the end of create_romy.
C2_NoUnlockWithoutPassword ==
    op = "create_romy" =>
        /\ \A k \in 1..Len(probed) :
              probed[k].http_status = 403 => k = Len(probed) /\ pc # "probe"
        /\ (pc = "unlock" /\ probed[Len(probed)].http_status = 403) =>
               romy._local_http_interface_is_locked
        /\ Len(romy._password) # 8 =>
               /\ Sent(UnlockCommand) = <<>>
               /\ (pc # "probe" /\ probed[Len(probed)].http_status = 403) =>
                      romy._local_http_interface_is_locked

\* C2: create_romy returned after a 403 with a 9-character password.
C2_Witness ==
    /\ InitReturned
    /\ retval = "self"
    /\ probed[Len(probed)].http_status = 403
    /\ Len(romy._password) = 9
    /\ romy._local_http_interface_is_locked

\* C3: a step that issues the unlock query is the unlock step of _init, no
\* unlock query was issued before it, the interface is locked when it is
\* issued and, if the query succeeds, unlocked after it. (So no refresh and no
\* command issues one.)
C3_UnlockOnce ==
    [][ (Issues /\ last'.command = UnlockCommand) =>
            /\ op = "create_romy" /\ pc = "unlock"
            /\ Sent(UnlockCommand) = <<>>
            /\ Len(romy._password) = 8
            /\ probed[Len(probed)].http_status = 403
            /\ romy._local_http_interface_is_locked
            /\ last'.ret => ~romy'._local_http_interface_is_locked ]_vars

\* C3: the interface was found locked, the unlock succeeded, and calls were
\* made on the session afterwards.
C3_Witness ==
    /\ op = "async_update"
    /\ pc = "idle"
    /\ probed[Len(probed)].http_status = 403
    /\ Len(romy._password) = 8
    /\ ~romy._local_http_interface_is_locked

\* The identity attributes get/robot_id sets are at their defaults.
NoRobotId ==
    /\ romy._name = ""
    /\ romy._unique_id = ""
    /\ romy._model = ""
    /\ romy._firmware = ""

\* C4: when create_romy returns, the session is initialized iff a probe was
\* answered 400 or 403 and get/robot_name and get/robot_id both succeeded;
\* once one of the two has failed the session is not initialized and the
\* attributes that query sets are at their defaults.
C4_InitializedIff ==
    op = "create_romy" =>
        /\ pc = "idle" =>
              (romy._initialized <=>
                  /\ Found
                  /\ Succeeded("get/robot_name")
                  /\ Succeeded("get/robot_id"))
        /\ Failed("get/robot_name") => ~romy._initialized /\ romy._user_name = ""
        /\ Failed("get/robot_id") => ~romy._initialized /\ NoRobotId

\* C4: a port answered, get/robot_name succeeded and get/robot_id failed.
C4_Witness ==
    /\ InitReturned
    /\ Found
    /\ Succeeded("get/robot_name")
    /\ Failed("get/robot_id")
    /\ romy._user_name = "Rosie"
    /\ ~romy._initialized

\* C5 (as claimed): when no port answers 400 or 403, _init issues no query
\* after the last probe and the session is not initialized.
C5_AbortsWithoutPort ==
    (op = "create_romy" /\ pc # "probe" /\ ~Found) =>
        /\ ~romy._initialized
        /\ Len(sent) = Len(probed)

\* C6: as long as every probe went unanswered and every later query failed,
\* create_romy has not raised and can go on; and when it returns, it returns the session,
\* not initialized and with the identity attributes at their defaults.
C6_UnreachableHost ==
    ( /\ op = "create_romy"
      /\ \A k \in 1..Len(probed) : probed[k].http_status = 0
      /\ \A k \in 1..Len(sent) : ~sent[k].ret ) =>
        /\ pc # "raised"
        /\ pc # "idle" => ENABLED (_init \/ async_update)
        /\ pc = "idle" =>
              /\ retval = "self"
              /\ ~romy._initialized
              /\ romy._user_name = ""
              /\ NoRobotId

\* C6: all ten queries of create_romy failed, the last by a timeout.
C6_Witness ==
    /\ InitReturned
    /\ Len(sent) = 10
    /\ \A k \in 1..Len(probed) : probed[k].http_status = 0
    /\ \A k \in 1..Len(sent) : ~sent[k].ret
    /\ last.kind = "timeout"

\* C7 (as claimed): each of the four commands issues one query and returns
\* True if that query got HTTP 200 and False if not.
C7_CommandsReturnSuccess ==
    ( /\ pc = "idle"
      /\ op \in {"async_clean_start_or_continue", "async_clean_all",
                 "async_stop", "async_return_to_base"} ) =>
        /\ Len(sent) = 1
        /\ retval = Repr(last.http_status = 200)

\* C8: async_set_fan_speed(v) leaves the session as it was except for the log
\* level and, if its query succeeded, _fan_speed, which is then v;
\* set_user_name(n) does the same with _user_name.
C8_OptimisticUpdate ==
    [][ /\ (op' = "async_set_fan_speed" /\ Issues) =>
              \E v \in FanSpeeds :
                  /\ last'.command =
                        "set/switch_cleaning_parameter_set?cleaning_parameter_set="
                            \o ToString(v)
                  /\ romy' = [romy EXCEPT
                                !._fan_speed = IF last'.ret THEN v ELSE @,
                                !.romy_async_query_error_log_level =
                                    IF last'.ret THEN "ERROR" ELSE "DEBUG"]
        /\ (op' = "set_user_name" /\ Issues) =>
              \E n \in NewNames :
                  /\ last'.command = "set/robot_name?name=" \o n
                  /\ romy' = [romy EXCEPT
                                !._user_name = IF last'.ret THEN n ELSE @,
                                !.romy_async_query_error_log_level =
                                    IF last'.ret THEN "ERROR" ELSE "DEBUG"] ]_vars

\* C8: a failed async_set_fan_speed has left the speed read from the robot.
C8_Witness ==
    /\ op = "async_set_fan_speed"
    /\ ~last.ret
    /\ romy._fan_speed = 2

\* The sub-fetches the refresh in progress (or the last one) has issued.
RefreshSent == SelectSeq(sent, LAMBDA e : e.command \in UpdateCommandSet)

\* This step is the sub-fetch command, and it does not raise.
Fetches(command) == Issues /\ last'.command = command /\ retval' # "raised"

\* C9: a refresh issues its sub-fetches in the order of UpdateCommands, each
\* once, and has issued all five when it returns, whichever of them failed;
\* a sub-fetch that fails leaves its attributes as they were and one that
\* succeeds sets them from the answer.
C9_PartialSuccess ==
    /\ [] /\ Len(RefreshSent) <= Len(UpdateCommands)
          /\ \A k \in 1..Len(RefreshSent) : RefreshSent[k].command = UpdateCommands[k]
          /\ (pc = "idle" /\ op \in {"create_romy", "async_update"}
                  /\ retval # "raised") => Len(RefreshSent) = 5
    /\ [][ /\ Fetches("get/status") =>
                IF last'.ret
                THEN /\ romy'._status = Some("ready")
                     /\ romy'._battery_level = Some(80)
                ELSE /\ romy'._status = romy._status
                     /\ romy'._battery_level = romy._battery_level
           /\ Fetches("get/cleaning_parameter_set") =>
                IF last'.ret
                THEN romy'._fan_speed = 2
                ELSE romy'._fan_speed = romy._fan_speed
           /\ Fetches("get/wifi_status") =>
                IF last'.ret
                THEN romy'._sensors["rssi"] = Some(-60)
                ELSE romy'._sensors = romy._sensors
           /\ Fetches("get/sensor_values") =>
                IF last'.ret
                THEN /\ romy'._binary_sensors["dustbin"] = TRUE
                     /\ romy'._binary_sensors["dock"] = FALSE
                     /\ romy'._sensors["dustbin_sensor"] = Some(42)
                ELSE /\ romy'._binary_sensors = romy._binary_sensors
                     /\ romy'._sensors = romy._sensors
           /\ Fetches("get/statistics") =>
                IF last'.ret
                THEN /\ romy'._sensors["total_distance_driven"] = Some(781)
                     /\ romy'._sensors["total_cleaning_time"] = Some(200)
                     /\ romy'._sensors["total_area_cleaned"] = Some(141)
                     /\ romy'._sensors["total_number_of_cleaning_runs"] = Some(7)
                ELSE romy'._sensors = romy._sensors ]_vars

\* C9: a refresh in which get/status succeeded and get/wifi_status failed has
\* returned: the status is set and there is still no rssi.
C9_Witness ==
    /\ op = "async_update"
    /\ pc = "idle"
    /\ retval = "None"
    /\ sent[1].ret
    /\ ~sent[3].ret
    /\ romy._status = Some("ready")
    /\ romy._battery_level = Some(80)
    /\ "rssi" \notin DOMAIN romy._sensors

\* C10 (as claimed): a sub-fetch of a refresh answered 200 with a malformed
\* body does not make the refresh raise.
C10_MalformedTolerated ==
    ~(retval = "raised" /\ last.command \in UpdateCommandSet)

\* C11 (as claimed): by the time _init starts the refresh it has queried
\* get/sensor_status.
C11_SensorStatusQueried ==
    (op = "create_romy" /\ Sent("get/status") # <<>>) =>
        Sent("get/sensor_status") # <<>>

\* C12: a call of the primitive that has returned has sent one GET, to the
\* URL made of its port and command. It returns True iff the whole response
\* came and its status is 200; with any other status it returns False, the
\* body and that status; after a timeout (False, "timeout", 0); after a
\* transport error (False, the error's text, 0).
C12_QueryPrimitive ==
    query.pc = "done" =>
        LET ev == query.ev[1]
            result == query.result[1]
        IN  /\ query.gets = <<Url(query.port, query.command)>>
            /\ result.ret <=> (ev.kind = "response" /\ ev.status = 200)
            /\ ev.kind = "response" =>
                  /\ result.response = ev.body
                  /\ result.http_status = ev.status
            /\ ev.kind = "timeout" =>
                  /\ result.response = Text("timeout")
                  /\ result.http_status = 0
            /\ ev.kind = "error" =>
                  /\ result.response = ClientError.body
                  /\ result.http_status = 0

\* C12: a call answered 403 has returned False with the body and the status.
C12_Witness ==
    /\ query.pc = "done"
    /\ query.ev = Some(Response(403, Json(EmptyDict)))
    /\ ~query.result[1].ret
    /\ query.result[1].http_status = 403
    /\ query.result[1].response = Json(EmptyDict)

\* C13: whenever the session is initialized, its port is one of 8080, 10009
\* and 80, and it is the port of the last probe, which answered 400 or 403.
C13_ActivePort ==
    romy._initialized =>
        /\ romy._port \in {8080, 10009, 80}
        /\ \E k \in 1..Len(romy._ports) : romy._port = romy._ports[k]
        /\ probed # <<>>
        /\ probed[Len(probed)].http_status \in {400, 403}
        /\ probed[Len(probed)].port = romy._port

\* C13: an initialized session found on the third port, after a command.
C13_Witness ==
    /\ romy._initialized
    /\ romy._port = 80
    /\ probed[Len(probed)].http_status = 403
    /\ op = "async_stop"
    /\ pc = "idle"

\* What a refresh is there to set.
Refreshed(r) ==
    [status |-> r._status, battery_level |-> r._battery_level,
     fan_speed |-> r._fan_speed, sensors |-> r._sensors,
     binary_sensors |-> r._binary_sensors]

\* C14: against a device whose responses do not change, a refresh called
\* right after a refresh (that of create_romy, or one the caller called)
\* returns with status, battery level, fan speed, sensors and binary sensors
\* as they were when it was called.
C14_RefreshIdempotent ==
    (net = "device" /\ op = "async_update" /\ pc = "idle") =>
        Refreshed(romy) = Refreshed(before[1])

\* C14: a second refresh has returned, against a device that answers
\* get/status and get/wifi_status and does not answer get/statistics.
C14_Witness ==
    /\ net = "device"
    /\ op = "async_update"
    /\ pc = "idle"
    /\ retval = "None"
    /\ romy._status = Some("ready")
    /\ {"battery_level", "rssi"} \subseteq DOMAIN romy._sensors
    /\ romy._sensors["battery_level"] = Some(80)
    /\ romy._sensors["rssi"] = Some(-60)
    /\ "total_distance_driven" \notin DOMAIN romy._sensors
    /\ Refreshed(before[1]) = Refreshed(romy)

\* C15 (as claimed): create_romy never ends otherwise than by returning the
\* session, and it issues at most three probes, one unlock, one query per
\* identity endpoint and the five sub-fetches of one refresh.
C15_InitReturnsSession ==
    op = "create_romy" =>
        /\ pc # "raised"
        /\ retval \in {"", "self"}
        /\ Len(Sent(ProbeCommand)) <= 3
        /\ Len(Sent(UnlockCommand)) <= 1
        /\ Len(Sent("get/robot_name")) <= 1
        /\ Len(Sent("get/robot_id")) <= 1
        /\ Len(RefreshSent) <= Len(UpdateCommands)

\* This step is a query: one more of the call in progress, or the single
\* one of a command.
Queries == Issues \/ (Callable /\ pc' = "idle")

\* C16 (as claimed): a query that times out or fails in the transport is
\* logged at ERROR if it is the session's first query or the query before it
\* succeeded, and at DEBUG if the query before it failed, the probes included.
C16_LogThrottling ==
    [][ (Queries /\ last'.kind \in {"timeout", "error"}) =>
            last'.logged = IF last = NoQuery \/ last.ret THEN "ERROR"
                           ELSE "DEBUG" ]_vars

\* C17: when two concurrent async_set_fan_speed calls have both returned
\* after a 200, the session's fan speed is that of the call that resumed
\* last, and the robot is at the fan speed of one of the two: nothing ties
\* the one to the other.
C17_LastResumedWins ==
    ( /\ op = "gather"
      /\ pc = "idle"
      /\ \A k \in 1..Len(sent) : sent[k].ret ) =>
        /\ Len(sent) = 2
        /\ sent[2].command = SetFanSpeedCommand(romy._fan_speed)
        /\ applied \in {Some(romy._fan_speed)} \cup
                       {Some(v) : v \in {w \in FanSpeeds :
                                            sent[1].command = SetFanSpeedCommand(w)}}

\* C17: both calls were answered 200 and the session's fan speed is not the
\* one the robot applied last.
C17_Witness ==
    /\ op = "gather"
    /\ pc = "idle"
    /\ Len(sent) = 2
    /\ sent[1].ret
    /\ sent[2].ret
    /\ applied # None
    /\ applied # Some(romy._fan_speed)

\* C18 (as claimed): every query of create_romy other than a probe is sent
\* to the port whose probe answered 400 or 403, and the unlock query comes
\* before the identity queries.
C18_SelectedPort ==
    op = "create_romy" =>
        \A k \in 1..Len(sent) :
            sent[k].command # ProbeCommand =>
                /\ Found
                /\ sent[k].port = probed[Len(probed)].port
                /\ sent[k].command = UnlockCommand =>
                      \A j \in 1..k :
                          sent[j].command \notin {"get/robot_name", "get/robot_id"}

\* C19: throughout create_romy the interface counts as locked iff the last
\* probe answered 403 and the unlock has not succeeded: the password is not 8
\* characters long, or the unlock query is not issued yet, or it failed. So
\* once the probing has ended without a 400 or 403 the session reports
\* is_unlocked while it is not initialized.
C19_LockedIff ==
    op = "create_romy" =>
        /\ romy._local_http_interface_is_locked <=>
              /\ probed # <<>>
              /\ probed[Len(probed)].http_status = 403
              /\ \/ Len(romy._password) # 8
                 \/ Sent(UnlockCommand) = <<>>
                 \/ Failed(UnlockCommand)
        /\ (pc # "probe" /\ ~Found) =>
              /\ is_unlocked(romy)
              /\ ~is_initialized(romy)

\* C19: create_romy has returned a session still locked, because the unlock
\* query failed, and initialized.
C19_Witness ==
    /\ InitReturned
    /\ probed[Len(probed)].http_status = 403
    /\ Len(romy._password) = 8
    /\ Failed(UnlockCommand)
    /\ ~is_unlocked(romy)
    /\ is_initialized(romy)

\* What create_romy settles about the session.
Settled(r) ==
    [initialized |-> r._initialized,
     interface_locked |-> r._local_http_interface_is_locked,
     port |-> r._port, name |-> r._name, unique_id |-> r._unique_id,
     model |-> r._model, firmware |-> r._firmware]

\* C20: no step of a call made on the session create_romy returned changes
\* _initialized, the lock flag, the port, or the identity attributes _name,
\* _unique_id, _model and _firmware, whatever the answer to its query.
C20_SettledByInit ==
    [][ (Callable \/ op # "create_romy") => Settled(romy') = Settled(romy) ]_vars

\* C20: an initialized session after a refresh in which all five sub-fetches
\* failed.
C20_Witness ==
    /\ op = "async_update"
    /\ pc = "idle"
    /\ Len(sent) = 5
    /\ \A k \in 1..Len(sent) : ~sent[k].ret
    /\ romy._initialized
    /\ romy._unique_id = "A1"

====
